---------------------------- MODULE Spec2Model ----------------------------
(***************************************************************************)
(* A model of src/qt.py: the ROSLauncherThread that supervises the         *)
(* external localization process, the ROSSubscriberThread that feeds pose  *)
(* messages, and the PCDViewer handlers that start, stop and observe them  *)
(* through Qt queued signal connections.                                   *)
(*                                                                         *)
(* Text is a sequence of character codes.  Launcher threads, subscriber    *)
(* threads and their processes are indexed by the order of their creation. *)
(***************************************************************************)
EXTENDS Integers, Sequences, FiniteSets, TLC

\* ------------------------------------------------------------------ bounds
\* ROSLauncherThread objects the consumer may create in one run of the model.
MaxLaunch == 2
\* Lines one supervised process may write to its pipe.
MaxLines == 2
\* ROSSubscriberThread objects the consumer may create in one run of the model.
MaxSub == 2
\* Pose messages the middleware may hand to the subscriptions of one run.
MaxPose == 1
\* Characters of a raw line handed to the sanitizer on its own.
MaxText == 4
\* Times the sanitizer is applied in a row to such a line.
MaxApply == 2

Launchers == 1..MaxLaunch
Subs == 1..MaxSub

\* -------------------------------------------------------------------- text
\* str.strip(): Python's whitespace (TAB LF VT FF CR, FS GS RS US, SPACE,
\* NEL, NBSP and the Unicode space separators).  ESC (27) is not whitespace.
IsSpace(c) ==
    c \in (9..13) \cup (28..32) \cup {133, 160, 5760} \cup (8192..8202)
          \cup {8232, 8233, 8239, 8287, 12288}

RECURSIVE LStrip(_)
LStrip(s) ==
    IF s # <<>> /\ IsSpace(Head(s)) THEN LStrip(Tail(s)) ELSE s

RECURSIVE RStrip(_)
RStrip(s) ==
    IF s # <<>> /\ IsSpace(s[Len(s)]) THEN RStrip(SubSeq(s, 1, Len(s) - 1)) ELSE s

Strip(s) == RStrip(LStrip(s))

\* The first index >= q of s whose character is outside class, or Len(s)+1:
\* where a greedy  [class]*  starting at q stops.
RECURSIVE SkipClass(_, _, _)
SkipClass(s, q, class) ==
    IF q <= Len(s) /\ s[q] \in class THEN SkipClass(s, q + 1, class) ELSE q

\* Length of the match of  \x1B(?:[@-Z\\-_]|\[[0-?]*[ -/]*[@-~])  at p, 0 if
\* none.  The three classes of the CSI branch are disjoint, so the greedy
\* match is the only candidate.
AnsiMatchLen(s, p) ==
    IF p + 1 > Len(s) \/ s[p] # 27 THEN 0
    ELSE IF s[p + 1] \in (64..90) \cup (92..95) THEN 2
    ELSE IF s[p + 1] # 91 THEN 0
    ELSE LET q1 == SkipClass(s, p + 2, 48..63)
             q2 == SkipClass(s, q1, 32..47)
         IN  IF q2 <= Len(s) /\ s[q2] \in 64..126 THEN q2 - p + 1 ELSE 0

\* Length of the match of  \]2;.*?\x07  at p, 0 if none: "]2;" and then the
\* shortest run of non-newline characters that ends in BEL.
TitleMatchLen(s, p) ==
    IF p + 2 > Len(s) \/ s[p] # 93 \/ s[p + 1] # 50 \/ s[p + 2] # 59 THEN 0
    ELSE LET q == SkipClass(s, p + 3, (0..65535) \ {7, 10})
         IN  IF q <= Len(s) /\ s[q] = 7 THEN q - p + 1 ELSE 0

\* Length of the match of  \[[\d;]*m  at p, 0 if none (the digits of the
\* model's texts are the ASCII ones).
ColorMatchLen(s, p) ==
    IF p > Len(s) \/ s[p] # 91 THEN 0
    ELSE LET q == SkipClass(s, p + 1, (48..57) \cup {59})
         IN  IF q <= Len(s) /\ s[q] = 109 THEN q - p + 1 ELSE 0

\* re.sub(pattern, '', s) from position p on: leftmost matches, not overlapping.
RECURSIVE SubAnsi(_, _)
SubAnsi(s, p) ==
    IF p > Len(s) THEN <<>>
    ELSE LET n == AnsiMatchLen(s, p)
         IN  IF n > 0 THEN SubAnsi(s, p + n) ELSE <<s[p]>> \o SubAnsi(s, p + 1)

RECURSIVE SubTitle(_, _)
SubTitle(s, p) ==
    IF p > Len(s) THEN <<>>
    ELSE LET n == TitleMatchLen(s, p)
         IN  IF n > 0 THEN SubTitle(s, p + n) ELSE <<s[p]>> \o SubTitle(s, p + 1)

RECURSIVE SubColor(_, _)
SubColor(s, p) ==
    IF p > Len(s) THEN <<>>
    ELSE LET n == ColorMatchLen(s, p)
         IN  IF n > 0 THEN SubColor(s, p + n) ELSE <<s[p]>> \o SubColor(s, p + 1)

\* ROSLauncherThread.clean_ansi_codes
clean_ansi_codes(text) ==
    Strip(SubColor(SubTitle(SubAnsi(text, 1), 1), 1))

\* pat in s
Contains(s, pat) ==
    \E p \in 1..(Len(s) - Len(pat) + 1) : SubSeq(s, p, p + Len(pat) - 1) = pat

\* str.lower() on the ASCII letters.
Lower(s) == [k \in 1..Len(s) |-> IF s[k] \in 65..90 THEN s[k] + 32 ELSE s[k]]

\* '[ERROR]' in cleaned_line or '[WARN' in cleaned_line
IsErrorLine(cleaned_line) ==
    \/ Contains(cleaned_line, <<91, 69, 82, 82, 79, 82, 93>>)
    \/ Contains(cleaned_line, <<91, 87, 65, 82, 78>>)

\* The lines a supervised process may write, each as readline returns it:
\*   1  "ready\n"             2  "[ERROR] boom\n"      3  "ESC[0m\n"
RawLines ==
    << <<114, 101, 97, 100, 121, 10>>,
       <<91, 69, 82, 82, 79, 82, 93, 32, 98, 111, 111, 109, 10>>,
       <<27, 91, 48, 109, 10>> >>

LineIds == 1..Len(RawLines)

\* cleaned_line = self.clean_ansi_codes(line.strip())
CleanedLine(l) == clean_ansi_codes(Strip(RawLines[l]))

\* The fixed messages of the launcher, by their first characters.
MsgStarting == <<27491, 22312>>
MsgCommand == <<25191, 34892>>
MsgStopped == <<10, 23450, 20301>>
MsgNoPath == <<38169, 35823>>
MsgStartFailed == <<21551, 21160, 22833, 36133>>
MsgStopFailed == <<20572, 27490>>
\* ... and of the subscriber.
MsgNoRos == <<82, 79, 83, 26410>>
MsgNoMaster == <<26080, 27861>>
MsgSubscribeFailed == <<35746, 38405, 22833, 36133>>
MsgDecodeFailed == <<35299, 26512>>

\* -------------------------------------------------------------------- pose
\* Numbers are fixed-point integers: a position of a message counts
\* 1/10000 m, an angle of a message counts 1/10000 rad; a shown position
\* counts thousandths (format .3f), a shown angle hundredths of a degree
\* (format .2f).
\* The integer nearest to a / b, for b > 0.
RoundDiv(a, b) == (2 * a + b) \div (2 * b)

\* pi in 1/10000 rad.
PiScaled == 31416

\* The angle shown as it arrives, in radians, with no conversion.
RadiansShown(r) == RoundDiv(r, 100)

\* f"{math.degrees(r):.2f}": r * 180 / pi, in hundredths of a degree.
DegreesShown(r) == RoundDiv(r * 18000, PiScaled)

\* f"{x:.3f}"
PositionShown(x) == RoundDiv(x, 10)

\* The PoseStamped messages the feed may publish: position x y z and
\* orientation x y z w.
\*   1  position (1, 2, 3), orientation (0, 0, pi/2, 1)
\*   2  position (1.2346, -1.5, 0), orientation (pi, -pi/4, 0.1, 0)
PoseMsgs ==
    << [position |-> <<10000, 20000, 30000>>,
        orientation |-> <<0, 0, 15708, 10000>>],
       [position |-> <<12346, -15000, 0>>,
        orientation |-> <<31416, -7854, 1000, 0>>] >>

\* pose_callback: x, y, z from msg.pose.position; roll, pitch, yaw from
\* msg.pose.orientation.x, .y, .z.
Pose(msg) ==
    <<msg.position[1], msg.position[2], msg.position[3],
      msg.orientation[1], msg.orientation[2], msg.orientation[3]>>

\* update_pose_from_ros(x, y, z, roll, pitch, yaw): the six fields as set.
PoseShown(pose) ==
    <<PositionShown(pose[1]), PositionShown(pose[2]), PositionShown(pose[3]),
      DegreesShown(pose[4]), DegreesShown(pose[5]), DegreesShown(pose[6])>>

\* ------------------------------------------------------------------- state
VARIABLES
    \* launcher threads and their processes
    nlaunch,            \* ROSLauncherThread objects created so far
    lpc,                \* each launcher thread's position in run()
    l_is_running,       \* ROSLauncherThread.is_running
    proc,               \* the OS process: "none", "alive", "exited" (not yet
                        \* waited for) or "reaped"; self.process is set from
                        \* the moment it is not "none"
    returncode,         \* exit status, meaningful once the process has exited
    path_exists,        \* os.path.exists(self.ndt_path) for this launcher
    spawned,            \* subprocess.Popen: "no" (not called), "ok", "raised"
    pipe,               \* lines written to stdout and not yet read
    written,            \* history: every line the process wrote
    line,               \* the line readline returned (0: none held)
    sigs,               \* history: signals sent to the process group, each
                        \* with the state the process was in
    stopstate,          \* history: "no", "called", "returned" for stop()
    \* the consumer (PCDViewer, on the main thread)
    ros_launcher,       \* self.ros_launcher (0: None)
    is_localization_running,
    btn_start_enabled,
    btn_stop_enabled,
    localization_status,
    mstack,             \* the main thread's open dialogs and blocking calls,
                        \* innermost last
    evq,                \* the main thread's event queue: queued slot calls
    handled,            \* history: slot calls run, per launcher
    \* subscriber threads
    nsub,               \* ROSSubscriberThread objects created so far
    spc,                \* each subscriber thread's position in run()
    s_is_running,       \* ROSSubscriberThread.is_running
    subscriber,         \* self.subscriber: "none", "registered", "unregistered"
    sstop,              \* history: "no", "called" for ROSSubscriberThread.stop()
    nposes,             \* pose messages handed to each subscription so far
    has_ros,            \* HAS_ROS
    is_shutdown,        \* rospy.is_shutdown()
    ros_subscriber,     \* self.ros_subscriber (0: None)
    is_pose_subscription_active,
    pose_status,
    pose_inputs,        \* the six pose fields as shown: x y z in thousandths,
                        \* roll pitch yaw in hundredths of a degree (<<>>: as
                        \* created, "0.00" in every field)
    shandled,           \* history: slot calls run, per subscriber
    \* the sanitizer on its own
    san_in,             \* a raw line handed to clean_ansi_codes
    san_out             \* history: the result of clean_ansi_codes on san_in,
                        \* and of clean_ansi_codes on that result, ...

lvars == <<nlaunch, lpc, l_is_running, proc, returncode, path_exists, spawned,
           pipe, written, line, sigs, stopstate>>
cvars == <<ros_launcher, is_localization_running, btn_start_enabled,
           btn_stop_enabled, localization_status>>
qvars == <<mstack, evq, handled>>
svars == <<nsub, spc, s_is_running, subscriber, sstop, nposes, has_ros,
           is_shutdown, ros_subscriber, is_pose_subscription_active,
           pose_status, pose_inputs, shandled>>
tvars == <<san_in, san_out>>
vars == <<lvars, cvars, qvars, svars, tvars>>

\* A queued slot call: the thread object whose signal was emitted, the signal,
\* and its argument (text for the str signals, ok for finished_signal).
Ev(from, id, sig, text, ok) ==
    [from |-> from, id |-> id, sig |-> sig, text |-> text, ok |-> ok]

LOutput(i, text) == Ev("launcher", i, "output", text, FALSE)
LError(i, text) == Ev("launcher", i, "error", text, FALSE)
LFinishedEv(i, ok) == Ev("launcher", i, "finished", <<>>, ok)

\* A frame of the main thread: a modal dialog (its nested event loop runs
\* queued slot calls) or a blocking call.
Frame(f, id, cont) == [f |-> f, id |-> id, cont |-> cont]

Top == IF mstack = <<>> THEN Frame("idle", 0, "none") ELSE mstack[Len(mstack)]
Pop == SubSeq(mstack, 1, Len(mstack) - 1)

\* An event loop that takes the newest queued slot call first.
NextCallNewest == evq[Len(evq)]

\* The slot call an event loop of the main thread runs next: the oldest one
\* queued (Qt.QueuedConnection posts each emission to the receiver's thread).
NextCall == Head(evq)

\* The main thread is inside a blocking call or in the straight-line part of
\* closeEvent, or the window is closed: no event loop runs.
Blocked == Top.f \in {"stopwait", "substop", "subwait", "closing", "closed"}
\* The main window takes clicks: no modal dialog is open, nothing blocks.
UiIdle == mstack = <<>>

\* PCDViewer.__init__ up to its last statement, the call of
\* start_pose_subscription.
Constructed ==
    /\ nlaunch = 0
    /\ lpc = [i \in Launchers |-> "idle"]
    /\ l_is_running = [i \in Launchers |-> FALSE]
    /\ proc = [i \in Launchers |-> "none"]
    /\ returncode = [i \in Launchers |-> 0]
    /\ path_exists = [i \in Launchers |-> TRUE]
    /\ spawned = [i \in Launchers |-> "no"]
    /\ pipe = [i \in Launchers |-> <<>>]
    /\ written = [i \in Launchers |-> <<>>]
    /\ line = [i \in Launchers |-> 0]
    /\ sigs = [i \in Launchers |-> <<>>]
    /\ stopstate = [i \in Launchers |-> "no"]
    /\ ros_launcher = 0
    /\ is_localization_running = FALSE
    /\ btn_start_enabled = TRUE
    /\ btn_stop_enabled = FALSE
    /\ localization_status = "not started"
    /\ mstack = <<>>
    /\ evq = <<>>
    /\ handled = [i \in Launchers |-> <<>>]
    /\ nsub = 0
    /\ spc = [j \in Subs |-> "idle"]
    /\ s_is_running = [j \in Subs |-> FALSE]
    /\ subscriber = [j \in Subs |-> "none"]
    /\ sstop = [j \in Subs |-> "no"]
    /\ nposes = [j \in Subs |-> 0]
    /\ is_shutdown = FALSE
    /\ ros_subscriber = 0
    /\ is_pose_subscription_active = FALSE
    /\ pose_inputs = <<>>
    /\ shandled = [j \in Subs |-> <<>>]

\* No line is being sanitized on its own.
NoText ==
    /\ san_in = <<>>
    /\ san_out = <<>>

\* The window as shown on a machine without the ROS packages: HAS_ROS is
\* False and start_pose_subscription has only set the status label.
Init ==
    /\ Constructed
    /\ NoText
    /\ has_ros = FALSE
    /\ pose_status = "no ros"

\* The state in which __init__ calls start_pose_subscription, with or
\* without the ROS packages.
SubInit ==
    /\ Constructed
    /\ NoText
    /\ has_ros \in BOOLEAN
    /\ pose_status = "connecting"

\* ------------------------------------------- ROSLauncherThread.run (thread)
\* LCheck without the return of the missing-path branch: run() goes on to
\* spawn the command.
LCheckNoReturn(i) ==
    /\ lpc[i] = "check"
    /\ evq' = IF path_exists[i]
              THEN evq \o <<LOutput(i, MsgStarting), LOutput(i, MsgCommand)>>
              ELSE Append(evq, LError(i, MsgNoPath))
    /\ lpc' = [lpc EXCEPT ![i] = "spawn"]
    /\ UNCHANGED <<nlaunch, l_is_running, proc, returncode, path_exists,
                   spawned, pipe, written, line, sigs, stopstate>>
    /\ UNCHANGED <<cvars, mstack, handled, svars>>
    /\ UNCHANGED tvars

\* if not os.path.exists(self.ndt_path): error_signal.emit(...);
\* otherwise the two output_signal.emit(...) that announce the command.
LCheck(i) ==
    /\ lpc[i] = "check"
    /\ IF path_exists[i]
       THEN /\ evq' = evq \o <<LOutput(i, MsgStarting), LOutput(i, MsgCommand)>>
            /\ lpc' = [lpc EXCEPT ![i] = "spawn"]
       ELSE /\ evq' = Append(evq, LError(i, MsgNoPath))
            /\ lpc' = [lpc EXCEPT ![i] = "failfin"]
    /\ UNCHANGED <<nlaunch, l_is_running, proc, returncode, path_exists,
                   spawned, pipe, written, line, sigs, stopstate>>
    /\ UNCHANGED <<cvars, mstack, handled, svars>>
    /\ UNCHANGED tvars

\* finally: self.is_running = False, and run() returns.  Nothing reads the
\* flag of a thread that has emitted its last signal, so the clause is one
\* step with that emit.
Finally(i) ==
    /\ l_is_running' = [l_is_running EXCEPT ![i] = FALSE]
    /\ lpc' = [lpc EXCEPT ![i] = "done"]
    /\ UNCHANGED tvars

\* self.finished_signal.emit(False); return   (the path does not exist)
LFailFinished(i) ==
    /\ lpc[i] = "failfin"
    /\ evq' = Append(evq, LFinishedEv(i, FALSE))
    /\ Finally(i)
    /\ UNCHANGED <<nlaunch, proc, returncode, path_exists,
                   spawned, pipe, written, line, sigs, stopstate>>
    /\ UNCHANGED <<cvars, mstack, handled, svars>>
    /\ UNCHANGED tvars

\* self.process = subprocess.Popen(..., preexec_fn=os.setsid, ...): the
\* process starts in a process group of its own, or Popen raises.
LSpawn(i) ==
    /\ lpc[i] = "spawn"
    /\ \E ok \in BOOLEAN :
          IF ok
          THEN /\ proc' = [proc EXCEPT ![i] = "alive"]
               /\ spawned' = [spawned EXCEPT ![i] = "ok"]
               /\ lpc' = [lpc EXCEPT ![i] = "setrun"]
          ELSE /\ proc' = proc
               /\ spawned' = [spawned EXCEPT ![i] = "raised"]
               /\ lpc' = [lpc EXCEPT ![i] = "exc"]
    /\ UNCHANGED <<nlaunch, l_is_running, returncode, path_exists,
                   pipe, written, line, sigs, stopstate>>
    /\ UNCHANGED <<cvars, qvars, svars>>
    /\ UNCHANGED tvars

\* self.is_running = True
LSetRunning(i) ==
    /\ lpc[i] = "setrun"
    /\ l_is_running' = [l_is_running EXCEPT ![i] = TRUE]
    /\ lpc' = [lpc EXCEPT ![i] = "read"]
    /\ UNCHANGED <<nlaunch, proc, returncode, path_exists, spawned,
                   pipe, written, line, sigs, stopstate>>
    /\ UNCHANGED <<cvars, qvars, svars>>
    /\ UNCHANGED tvars

\* for line in iter(self.process.stdout.readline, ''): readline blocks until
\* a line is in the pipe, and returns '' once every writer has gone.
LRead(i) ==
    /\ lpc[i] = "read"
    /\ \/ /\ pipe[i] # <<>>
          /\ line' = [line EXCEPT ![i] = Head(pipe[i])]
          /\ pipe' = [pipe EXCEPT ![i] = Tail(pipe[i])]
          /\ lpc' = [lpc EXCEPT ![i] = "loop"]
       \/ /\ pipe[i] = <<>>
          /\ proc[i] # "alive"
          /\ UNCHANGED <<line, pipe>>
          /\ lpc' = [lpc EXCEPT ![i] = "wait"]
    /\ UNCHANGED <<nlaunch, l_is_running, proc, returncode, path_exists,
                   spawned, written, sigs, stopstate>>
    /\ UNCHANGED <<cvars, qvars, svars>>
    /\ UNCHANGED tvars

\* if not self.is_running: break
LLoop(i) ==
    /\ lpc[i] = "loop"
    /\ IF l_is_running[i]
       THEN /\ lpc' = [lpc EXCEPT ![i] = "emit"]
            /\ line' = line
       ELSE /\ lpc' = [lpc EXCEPT ![i] = "wait"]
            /\ line' = [line EXCEPT ![i] = 0]
    /\ UNCHANGED <<nlaunch, l_is_running, proc, returncode, path_exists,
                   spawned, pipe, written, sigs, stopstate>>
    /\ UNCHANGED <<cvars, qvars, svars>>
    /\ UNCHANGED tvars

\* The signal the loop emits for the cleaned line, none if it is empty.
LineEvents(i, l) ==
    LET cleaned_line == CleanedLine(l)
    IN  IF cleaned_line = <<>> THEN <<>>
        ELSE IF IsErrorLine(cleaned_line) THEN <<LError(i, cleaned_line)>>
        ELSE <<LOutput(i, cleaned_line)>>

\* cleaned_line = ...; if cleaned_line: error_signal or output_signal .emit
LEmit(i) ==
    /\ lpc[i] = "emit"
    /\ evq' = evq \o LineEvents(i, line[i])
    /\ line' = [line EXCEPT ![i] = 0]
    /\ lpc' = [lpc EXCEPT ![i] = "poll"]
    /\ UNCHANGED <<nlaunch, l_is_running, proc, returncode, path_exists,
                   spawned, pipe, written, sigs, stopstate>>
    /\ UNCHANGED <<cvars, mstack, handled, svars>>
    /\ UNCHANGED tvars

\* if self.process.poll() is not None: break    (poll waits for an exited
\* process without blocking)
LPoll(i) ==
    /\ lpc[i] = "poll"
    /\ IF proc[i] = "alive"
       THEN /\ lpc' = [lpc EXCEPT ![i] = "read"]
            /\ proc' = proc
       ELSE /\ lpc' = [lpc EXCEPT ![i] = "wait"]
            /\ proc' = [proc EXCEPT ![i] = "reaped"]
    /\ UNCHANGED <<nlaunch, l_is_running, returncode, path_exists, spawned,
                   pipe, written, line, sigs, stopstate>>
    /\ UNCHANGED <<cvars, qvars, svars>>
    /\ UNCHANGED tvars

\* self.process.wait(): blocks until the process has exited.
LWait(i) ==
    /\ lpc[i] = "wait"
    /\ proc[i] \in {"exited", "reaped"}
    /\ proc' = [proc EXCEPT ![i] = "reaped"]
    /\ lpc' = [lpc EXCEPT ![i] = "fin"]
    /\ UNCHANGED <<nlaunch, l_is_running, returncode, path_exists, spawned,
                   pipe, written, line, sigs, stopstate>>
    /\ UNCHANGED <<cvars, qvars, svars>>
    /\ UNCHANGED tvars

\* ExitSuccess taking every status a process can exit with as a success.
ExitSuccessNonNegative(i) == returncode[i] >= 0

\* self.process.returncode == 0
ExitSuccess(i) == returncode[i] = 0

\* self.finished_signal.emit(self.process.returncode == 0 ...)
LFinished(i) ==
    /\ lpc[i] = "fin"
    /\ evq' = Append(evq, LFinishedEv(i, ExitSuccess(i)))
    /\ Finally(i)
    /\ UNCHANGED <<nlaunch, proc, returncode, path_exists,
                   spawned, pipe, written, line, sigs, stopstate>>
    /\ UNCHANGED <<cvars, mstack, handled, svars>>
    /\ UNCHANGED tvars

\* except Exception as e: self.error_signal.emit(...)
LExcError(i) ==
    /\ lpc[i] = "exc"
    /\ evq' = Append(evq, LError(i, MsgStartFailed))
    /\ lpc' = [lpc EXCEPT ![i] = "excfin"]
    /\ UNCHANGED <<nlaunch, l_is_running, proc, returncode, path_exists,
                   spawned, pipe, written, line, sigs, stopstate>>
    /\ UNCHANGED <<cvars, mstack, handled, svars>>
    /\ UNCHANGED tvars

\* LExcFinished without its emit: the except clause reports the error only.
LExcFinishedSilent(i) ==
    /\ lpc[i] = "excfin"
    /\ Finally(i)
    /\ UNCHANGED <<nlaunch, proc, returncode, path_exists,
                   spawned, pipe, written, line, sigs, stopstate>>
    /\ UNCHANGED <<cvars, qvars, svars>>
    /\ UNCHANGED tvars

\* ... self.finished_signal.emit(False)
LExcFinished(i) ==
    /\ lpc[i] = "excfin"
    /\ evq' = Append(evq, LFinishedEv(i, FALSE))
    /\ Finally(i)
    /\ UNCHANGED <<nlaunch, proc, returncode, path_exists,
                   spawned, pipe, written, line, sigs, stopstate>>
    /\ UNCHANGED <<cvars, mstack, handled, svars>>
    /\ UNCHANGED tvars

\* The steps of run() outside the body of its read loop.
LauncherOuterStep(i) ==
    \/ LCheck(i) \/ LFailFinished(i) \/ LSpawn(i) \/ LSetRunning(i)
    \/ LRead(i) \/ LWait(i)
    \/ LFinished(i) \/ LExcError(i) \/ LExcFinished(i)

LauncherStep(i) ==
    \/ LauncherOuterStep(i)
    \/ LLoop(i) \/ LEmit(i) \/ LPoll(i)

\* ------------------------------------------------- the supervised process
\* The process (bash running roslaunch) writes a line to its stdout.
ProcWrite(i) ==
    /\ proc[i] = "alive"
    /\ Len(written[i]) < MaxLines
    /\ \E l \in LineIds :
          /\ pipe' = [pipe EXCEPT ![i] = Append(pipe[i], l)]
          /\ written' = [written EXCEPT ![i] = Append(written[i], l)]
    /\ UNCHANGED <<nlaunch, lpc, l_is_running, proc, returncode, path_exists,
                   spawned, line, sigs, stopstate>>
    /\ UNCHANGED <<cvars, qvars, svars>>
    /\ UNCHANGED tvars

\* The process exits by itself, with status 0 or 1.
ProcExit(i) ==
    /\ proc[i] = "alive"
    /\ \E status \in {0, 1} :
          returncode' = [returncode EXCEPT ![i] = status]
    /\ proc' = [proc EXCEPT ![i] = "exited"]
    /\ UNCHANGED <<nlaunch, lpc, l_is_running, path_exists, spawned,
                   pipe, written, line, sigs, stopstate>>
    /\ UNCHANGED <<cvars, qvars, svars>>
    /\ UNCHANGED tvars

\* The process group dies of the SIGTERM it was sent: Popen reports -15.
ProcTerminated(i) ==
    /\ proc[i] = "alive"
    /\ \E k \in 1..Len(sigs[i]) : sigs[i][k].sig = "SIGTERM"
    /\ returncode' = [returncode EXCEPT ![i] = -15]
    /\ proc' = [proc EXCEPT ![i] = "exited"]
    /\ UNCHANGED <<nlaunch, lpc, l_is_running, path_exists, spawned,
                   pipe, written, line, sigs, stopstate>>
    /\ UNCHANGED <<cvars, qvars, svars>>
    /\ UNCHANGED tvars

\* ------------------------------------------------ ROSLauncherThread.stop
\* stop() runs on the caller's thread (the main thread).  With self.process
\* set and the pid still known to the system it sends SIGTERM to the group,
\* emits the "stopped" text and blocks in self.process.wait(timeout=5).
\* With self.process None it only clears the flag.  With the process already
\* waited for, os.getpgid raises and the handler emits the error text.
StopReturnsAtOnce(i) == proc[i] \in {"none", "reaped"}

SigSent(i, sig) == [sig |-> sig, state |-> proc[i]]

\* The part of stop() up to its blocking wait, called with the main
\* thread's stack being base; cont names the caller to resume.
LauncherStop(i, base, cont) ==
    /\ l_is_running' = [l_is_running EXCEPT ![i] = FALSE]
    /\ CASE proc[i] = "none" ->
              /\ UNCHANGED <<sigs, evq>>
              /\ stopstate' = [stopstate EXCEPT ![i] = "returned"]
              /\ mstack' = base
         [] proc[i] \in {"alive", "exited"} ->
              /\ sigs' = [sigs EXCEPT ![i] = Append(sigs[i], SigSent(i, "SIGTERM"))]
              /\ evq' = Append(evq, LOutput(i, MsgStopped))
              /\ stopstate' = [stopstate EXCEPT ![i] = "called"]
              /\ mstack' = Append(base, Frame("stopwait", i, cont))
         [] proc[i] = "reaped" ->
              /\ sigs' = sigs
              /\ evq' = Append(evq, LError(i, MsgStopFailed))
              /\ stopstate' = [stopstate EXCEPT ![i] = "returned"]
              /\ mstack' = base
    /\ UNCHANGED <<nlaunch, lpc, proc, returncode, path_exists, spawned,
                   pipe, written, line>>
    /\ UNCHANGED tvars

\* ------------------------------------------------- PCDViewer (main thread)
\* StopLocalizationTail for a stop_localization that clears the flag and
\* sets the status but leaves the two buttons as they are.
StopLocalizationTailFlagOnly ==
    /\ is_localization_running' = FALSE
    /\ btn_start_enabled' = btn_start_enabled
    /\ btn_stop_enabled' = btn_stop_enabled
    /\ localization_status' = "stopped"
    /\ ros_launcher' = ros_launcher
    /\ UNCHANGED tvars

\* stop_localization, after self.ros_launcher.stop() has returned.
StopLocalizationTail ==
    /\ is_localization_running' = FALSE
    /\ btn_start_enabled' = TRUE
    /\ btn_stop_enabled' = FALSE
    /\ localization_status' = "stopped"
    /\ ros_launcher' = ros_launcher
    /\ UNCHANGED tvars

\* The caller of stop() resumes.
Resume(cont) ==
    CASE cont = "stop_localization" -> StopLocalizationTail
      [] OTHER -> UNCHANGED cvars

\* start_localization up to its confirmation question.  When
\* is_localization_running it shows an information box and returns, which
\* changes nothing.
ClickStart ==
    /\ UiIdle
    /\ ~is_localization_running
    /\ mstack' = Append(mstack, Frame("startq", 0, "none"))
    /\ UNCHANGED <<lvars, cvars, evq, handled, svars>>
    /\ UNCHANGED tvars

\* The user answers the start question.  Yes: a new ROSLauncherThread is
\* created, connected (queued) and started, and the UI state is updated.
\* The model creates at most limit launchers.
AnswerStart(limit) ==
    /\ Top.f = "startq"
    /\ mstack' = Pop
    /\ \/ UNCHANGED <<lvars, cvars>>
       \/ /\ nlaunch < limit
          /\ nlaunch' = nlaunch + 1
          /\ \E e \in BOOLEAN :
                path_exists' = [path_exists EXCEPT ![nlaunch + 1] = e]
          /\ lpc' = [lpc EXCEPT ![nlaunch + 1] = "check"]
          /\ ros_launcher' = nlaunch + 1
          /\ is_localization_running' = TRUE
          /\ btn_start_enabled' = FALSE
          /\ btn_stop_enabled' = TRUE
          /\ localization_status' = "starting"
          /\ UNCHANGED <<l_is_running, proc, returncode, spawned, pipe,
                         written, line, sigs, stopstate>>
    /\ UNCHANGED <<evq, handled, svars>>
    /\ UNCHANGED tvars

\* stop_localization up to its dialog; it returns at once when not running.
ClickStop ==
    /\ UiIdle
    /\ is_localization_running
    /\ mstack' = Append(mstack, Frame("stopq", 0, "none"))
    /\ UNCHANGED <<lvars, cvars, evq, handled, svars>>
    /\ UNCHANGED tvars

\* AnswerStop for a stop_localization that resets the UI state whatever the
\* answer is.
AnswerStopResetsOnNo ==
    /\ Top.f = "stopq"
    /\ \/ /\ mstack' = Pop
          /\ StopLocalizationTail
          /\ UNCHANGED <<lvars, evq>>
       \/ /\ ros_launcher # 0
          /\ LauncherStop(ros_launcher, Pop, "stop_localization")
          /\ IF StopReturnsAtOnce(ros_launcher)
             THEN StopLocalizationTail
             ELSE UNCHANGED cvars
    /\ UNCHANGED <<handled, svars>>
    /\ UNCHANGED tvars

\* The user answers the stop question.  Yes: self.ros_launcher.stop() and,
\* once it has returned, the UI state is updated.
AnswerStop ==
    /\ Top.f = "stopq"
    /\ \/ /\ mstack' = Pop
          /\ UNCHANGED <<lvars, cvars, evq>>
       \/ /\ ros_launcher = 0
          /\ mstack' = Pop
          /\ StopLocalizationTail
          /\ UNCHANGED <<lvars, evq>>
       \/ /\ ros_launcher # 0
          /\ LauncherStop(ros_launcher, Pop, "stop_localization")
          /\ IF StopReturnsAtOnce(ros_launcher)
             THEN StopLocalizationTail
             ELSE UNCHANGED cvars
    /\ UNCHANGED <<handled, svars>>
    /\ UNCHANGED tvars

\* self.process.wait(timeout=5) returns: the process has exited.
StopWaitExit ==
    /\ Top.f = "stopwait"
    /\ proc[Top.id] \in {"exited", "reaped"}
    /\ proc' = [proc EXCEPT ![Top.id] = "reaped"]
    /\ stopstate' = [stopstate EXCEPT ![Top.id] = "returned"]
    /\ mstack' = Pop
    /\ Resume(Top.cont)
    /\ UNCHANGED <<nlaunch, lpc, l_is_running, returncode, path_exists,
                   spawned, pipe, written, line, sigs>>
    /\ UNCHANGED <<evq, handled, svars>>
    /\ UNCHANGED tvars

\* WaitTimesOut for a stop() that kills whether or not the wait timed out.
WaitTimesOutAlways(i) == proc[i] \in {"alive", "exited", "reaped"}

\* The wait may time out while the process is still alive.
WaitTimesOut(i) == proc[i] = "alive"

\* except subprocess.TimeoutExpired: os.killpg(..., signal.SIGKILL).  The
\* kill ends every process of the group; Popen reports -9.
StopWaitTimeout ==
    /\ Top.f = "stopwait"
    /\ WaitTimesOut(Top.id)
    /\ sigs' = [sigs EXCEPT ![Top.id] = Append(sigs[Top.id], SigSent(Top.id, "SIGKILL"))]
    /\ proc' = [proc EXCEPT ![Top.id] = "exited"]
    /\ returncode' = [returncode EXCEPT ![Top.id] = -9]
    /\ stopstate' = [stopstate EXCEPT ![Top.id] = "returned"]
    /\ mstack' = Pop
    /\ Resume(Top.cont)
    /\ UNCHANGED <<nlaunch, lpc, l_is_running, path_exists, spawned, pipe,
                   written, line>>
    /\ UNCHANGED <<evq, handled, svars>>
    /\ UNCHANGED tvars

\* closeEvent up to its confirmation question, which is asked when
\* is_localization_running and self.ros_launcher; otherwise it goes on to
\* the pose subscription.
CloseEvent ==
    /\ UiIdle
    /\ mstack' = IF is_localization_running /\ ros_launcher # 0
                 THEN Append(mstack, Frame("closeq", 0, "none"))
                 ELSE Append(mstack, Frame("closing", 0, "none"))
    /\ UNCHANGED <<lvars, cvars, evq, handled, svars>>
    /\ UNCHANGED tvars

\* The user answers the close question.  No: event.ignore() and return.
\* Yes: self.ros_launcher.stop(), then closeEvent goes on.
AnswerClose ==
    /\ Top.f = "closeq"
    /\ \/ /\ mstack' = Pop
          /\ UNCHANGED <<lvars, evq>>
       \/ LauncherStop(ros_launcher, Append(Pop, Frame("closing", 0, "none")),
                       "closeEvent")
    /\ UNCHANGED <<cvars, handled, svars>>
    /\ UNCHANGED tvars

\* closeEvent after the launcher: if self.ros_subscriber, its stop() begins
\* (self.is_running = False); else event.accept() and the window closes.
CloseSubscriberStop ==
    /\ Top.f = "closing"
    /\ IF ros_subscriber # 0
       THEN /\ s_is_running' = [s_is_running EXCEPT ![ros_subscriber] = FALSE]
            /\ sstop' = [sstop EXCEPT ![ros_subscriber] = "called"]
            /\ mstack' = Append(Pop, Frame("substop", ros_subscriber, "closeEvent"))
       ELSE /\ mstack' = Append(Pop, Frame("closed", 0, "none"))
            /\ UNCHANGED <<s_is_running, sstop>>
    /\ UNCHANGED <<nsub, spc, subscriber, nposes, has_ros, is_shutdown,
                   ros_subscriber, is_pose_subscription_active, pose_status,
                   pose_inputs,
                   shandled>>
    /\ UNCHANGED <<lvars, cvars, evq, handled>>
    /\ UNCHANGED tvars

\* on_ros_output: the status label follows keywords of the text.
StatusAfterOutput(text) ==
    LET low == Lower(text)
        up == \/ Contains(low, <<115, 116, 97, 114, 116, 101, 100>>)
              \/ Contains(low, <<114, 101, 97, 100, 121>>)
              \/ Contains(low, <<108, 111, 97, 100>>)
        map == /\ Contains(low, <<108, 111, 97, 100>>)
               /\ Contains(low, <<46, 112, 99, 100>>)
    IN  IF map THEN "loading map"
        ELSE IF up THEN "running"
        ELSE localization_status

\* The main thread's event loop (the outermost one, or the one of a modal
\* dialog) runs the next queued slot call of a launcher: on_ros_output,
\* on_ros_error, or on_ros_finished up to its message box.
HandleLauncherEvent ==
    /\ ~Blocked
    /\ evq # <<>>
    /\ NextCall.from = "launcher"
    /\ LET e == NextCall
       IN  /\ evq' = Tail(evq)
           /\ handled' = [handled EXCEPT ![e.id] = Append(handled[e.id], e)]
           /\ mstack' = IF e.sig = "finished"
                        THEN Append(mstack, Frame("finbox", e.id, "none"))
                        ELSE mstack
           /\ localization_status' = IF e.sig = "output"
                                     THEN StatusAfterOutput(e.text)
                                     ELSE localization_status
    /\ UNCHANGED <<ros_launcher, is_localization_running, btn_start_enabled,
                   btn_stop_enabled>>
    /\ UNCHANGED <<lvars, svars>>
    /\ UNCHANGED tvars

\* on_ros_finished after its message box is closed: the state is reset.
DismissFinished ==
    /\ Top.f = "finbox"
    /\ mstack' = Pop
    /\ is_localization_running' = FALSE
    /\ btn_start_enabled' = TRUE
    /\ btn_stop_enabled' = FALSE
    /\ localization_status' = "not started"
    /\ UNCHANGED <<ros_launcher, lvars, evq, handled, svars>>
    /\ UNCHANGED tvars

\* ----------------------------------------- ROSSubscriberThread.run (thread)
SConnected(j) == Ev("subscriber", j, "connected", <<>>, FALSE)
SPose(j, pose) == Ev("subscriber", j, "pose", pose, FALSE)
SError(j, text) == Ev("subscriber", j, "error", text, FALSE)

svars_thread == <<nsub, ros_subscriber, is_pose_subscription_active,
                  pose_status, pose_inputs, has_ros, is_shutdown, sstop,
                  nposes>>

\* SProbe without the return of the failed probe: run() goes on to
\* subscribe.
SProbeNoReturn(j) ==
    /\ spc[j] = "start"
    /\ IF ~has_ros
       THEN /\ evq' = Append(evq, SError(j, MsgNoRos))
            /\ spc' = [spc EXCEPT ![j] = "done"]
       ELSE \E up \in BOOLEAN :
               /\ evq' = IF up THEN evq ELSE Append(evq, SError(j, MsgNoMaster))
               /\ spc' = [spc EXCEPT ![j] = "subscribe"]
    /\ UNCHANGED <<s_is_running, subscriber, svars_thread>>
    /\ UNCHANGED <<lvars, cvars, mstack, handled, shandled>>
    /\ UNCHANGED tvars

\* if not HAS_ROS: error_signal.emit(...); return.  Otherwise the liveness
\* probe rosgraph.Master('/rostopic').getPid(): when it raises, the error is
\* emitted and run() returns through its finally clause.
SProbe(j) ==
    /\ spc[j] = "start"
    /\ IF ~has_ros
       THEN /\ evq' = Append(evq, SError(j, MsgNoRos))
            /\ spc' = [spc EXCEPT ![j] = "done"]
       ELSE \E up \in BOOLEAN :
               IF up
               THEN /\ evq' = evq
                    /\ spc' = [spc EXCEPT ![j] = "subscribe"]
               ELSE /\ evq' = Append(evq, SError(j, MsgNoMaster))
                    /\ spc' = [spc EXCEPT ![j] = "finally"]
    /\ UNCHANGED <<s_is_running, subscriber, svars_thread>>
    /\ UNCHANGED <<lvars, cvars, mstack, handled, shandled>>
    /\ UNCHANGED tvars

\* SSubscribe for a run() that goes on to the receive loop although
\* init_node or rospy.Subscriber raised.
SSubscribeIgnoringFailure(j) ==
    /\ spc[j] = "subscribe"
    /\ \E ok \in BOOLEAN :
          /\ subscriber' = [subscriber EXCEPT ![j] = IF ok THEN "registered" ELSE "none"]
          /\ spc' = [spc EXCEPT ![j] = "setrun"]
    /\ UNCHANGED <<s_is_running, svars_thread>>
    /\ UNCHANGED <<lvars, cvars, qvars, shandled>>
    /\ UNCHANGED tvars

\* rospy.init_node(...) when the node is not up yet, then
\* self.subscriber = rospy.Subscriber(...): the subscription is registered,
\* or one of the two calls raises.
SSubscribe(j) ==
    /\ spc[j] = "subscribe"
    /\ \E ok \in BOOLEAN :
          IF ok
          THEN /\ subscriber' = [subscriber EXCEPT ![j] = "registered"]
               /\ spc' = [spc EXCEPT ![j] = "setrun"]
          ELSE /\ subscriber' = subscriber
               /\ spc' = [spc EXCEPT ![j] = "exc"]
    /\ UNCHANGED <<s_is_running, svars_thread>>
    /\ UNCHANGED <<lvars, cvars, qvars, shandled>>
    /\ UNCHANGED tvars

\* self.is_running = True
SSetRunning(j) ==
    /\ spc[j] = "setrun"
    /\ s_is_running' = [s_is_running EXCEPT ![j] = TRUE]
    /\ spc' = [spc EXCEPT ![j] = "connected"]
    /\ UNCHANGED <<subscriber, svars_thread>>
    /\ UNCHANGED <<lvars, cvars, qvars, shandled>>
    /\ UNCHANGED tvars

\* self.connected_signal.emit()
SEmitConnected(j) ==
    /\ spc[j] = "connected"
    /\ evq' = Append(evq, SConnected(j))
    /\ spc' = [spc EXCEPT ![j] = "loop"]
    /\ UNCHANGED <<s_is_running, subscriber, svars_thread>>
    /\ UNCHANGED <<lvars, cvars, mstack, handled, shandled>>
    /\ UNCHANGED tvars

\* while self.is_running and not rospy.is_shutdown(): rate.sleep()
\* (a ROSInterruptException out of the sleep breaks the loop as well).
LoopContinues(j) == s_is_running[j] /\ ~is_shutdown

SLoop(j) ==
    /\ spc[j] = "loop"
    /\ spc' = [spc EXCEPT ![j] = IF LoopContinues(j) THEN "loop" ELSE "finally"]
    /\ UNCHANGED <<s_is_running, subscriber, svars_thread>>
    /\ UNCHANGED <<lvars, cvars, qvars, shandled>>
    /\ UNCHANGED tvars

\* except Exception as e: self.error_signal.emit(...)
SExcError(j) ==
    /\ spc[j] = "exc"
    /\ evq' = Append(evq, SError(j, MsgSubscribeFailed))
    /\ spc' = [spc EXCEPT ![j] = "finally"]
    /\ UNCHANGED <<s_is_running, subscriber, svars_thread>>
    /\ UNCHANGED <<lvars, cvars, mstack, handled, shandled>>
    /\ UNCHANGED tvars

\* self.subscriber.unregister(), for a subscriber that was created.
Unregistered(j) == IF subscriber[j] = "none" THEN "none" ELSE "unregistered"

\* finally: self.is_running = False; if self.subscriber: unregister()
SFinally(j) ==
    /\ spc[j] = "finally"
    /\ s_is_running' = [s_is_running EXCEPT ![j] = FALSE]
    /\ subscriber' = [subscriber EXCEPT ![j] = Unregistered(j)]
    /\ spc' = [spc EXCEPT ![j] = "done"]
    /\ UNCHANGED svars_thread
    /\ UNCHANGED <<lvars, cvars, qvars, shandled>>
    /\ UNCHANGED tvars

SubscriberStep(j) ==
    \/ SProbe(j) \/ SSubscribe(j) \/ SSetRunning(j) \/ SEmitConnected(j)
    \/ SLoop(j) \/ SExcError(j) \/ SFinally(j)

\* The calls of pose_callback so far, over all subscriptions.
RECURSIVE SumPoses(_)
SumPoses(k) == IF k = 0 THEN 0 ELSE nposes[k] + SumPoses(k - 1)
PosesSoFar == SumPoses(MaxSub)

\* pose_callback, on the middleware's receiving thread, for a message of a
\* registered subscription: pose_signal.emit(...), or error_signal.emit(...)
\* when reading the message raises.
PoseCallback(j) ==
    /\ subscriber[j] = "registered"
    /\ PosesSoFar < MaxPose
    /\ nposes' = [nposes EXCEPT ![j] = nposes[j] + 1]
    /\ \E decoded \in BOOLEAN, msg \in 1..Len(PoseMsgs) :
          evq' = Append(evq, IF decoded THEN SPose(j, Pose(PoseMsgs[msg]))
                             ELSE SError(j, MsgDecodeFailed))
    /\ UNCHANGED <<nsub, spc, s_is_running, subscriber, sstop, has_ros,
                   is_shutdown, ros_subscriber, is_pose_subscription_active,
                   pose_status, pose_inputs,
                   shandled>>
    /\ UNCHANGED <<lvars, cvars, mstack, handled>>
    /\ UNCHANGED tvars

\* The runtime shuts down: rospy.is_shutdown() turns true.
RosShutdown ==
    /\ has_ros
    /\ ~is_shutdown
    /\ is_shutdown' = TRUE
    /\ UNCHANGED <<nsub, spc, s_is_running, subscriber, sstop, nposes, has_ros,
                   ros_subscriber, is_pose_subscription_active, pose_status,
                   pose_inputs,
                   shandled>>
    /\ UNCHANGED <<lvars, cvars, qvars>>
    /\ UNCHANGED tvars

\* --------------------------------------- PCDViewer and the subscriber
\* start_pose_subscription, entered with is_pose_subscription_active = active
\* and self.ros_subscriber = current: it returns at once when active, only
\* sets the label without the ROS packages, and otherwise creates, connects
\* (queued) and starts a ROSSubscriberThread.
StartPoseSubscriptionFrom(active, current) ==
    IF active
    THEN /\ is_pose_subscription_active' = TRUE
         /\ ros_subscriber' = current
         /\ UNCHANGED <<nsub, spc, pose_status>>
    ELSE IF ~has_ros
    THEN /\ is_pose_subscription_active' = FALSE
         /\ ros_subscriber' = current
         /\ pose_status' = "no ros"
         /\ UNCHANGED <<nsub, spc>>
    ELSE /\ nsub < MaxSub
         /\ nsub' = nsub + 1
         /\ spc' = [spc EXCEPT ![nsub + 1] = "start"]
         /\ ros_subscriber' = nsub + 1
         /\ is_pose_subscription_active' = TRUE
         /\ pose_status' = "connecting"

\* A call of start_pose_subscription: the one that ends __init__, or a
\* later one.
StartPoseSubscription ==
    /\ UiIdle
    /\ StartPoseSubscriptionFrom(is_pose_subscription_active, ros_subscriber)
    /\ UNCHANGED <<s_is_running, subscriber, sstop, nposes, has_ros,
                   is_shutdown, pose_inputs, shandled>>
    /\ UNCHANGED <<lvars, cvars, qvars>>
    /\ UNCHANGED tvars

\* restart_pose_subscription with self.ros_subscriber set, up to the first
\* statement of ROSSubscriberThread.stop: self.is_running = False.
RestartStop ==
    /\ UiIdle
    /\ ros_subscriber # 0
    /\ s_is_running' = [s_is_running EXCEPT ![ros_subscriber] = FALSE]
    /\ sstop' = [sstop EXCEPT ![ros_subscriber] = "called"]
    /\ mstack' = Append(mstack, Frame("substop", ros_subscriber, "restart"))
    /\ UNCHANGED <<nsub, spc, subscriber, nposes, has_ros, is_shutdown,
                   ros_subscriber, is_pose_subscription_active, pose_status,
                   pose_inputs,
                   shandled>>
    /\ UNCHANGED <<lvars, cvars, evq, handled>>
    /\ UNCHANGED tvars

\* The rest of stop(): if self.subscriber: unregister() (errors swallowed);
\* self.quit().  The caller goes on to self.ros_subscriber.wait().
SubStopUnregister ==
    /\ Top.f = "substop"
    /\ subscriber' = [subscriber EXCEPT ![Top.id] = Unregistered(Top.id)]
    /\ mstack' = Append(Pop, Frame("subwait", Top.id, Top.cont))
    /\ UNCHANGED <<nsub, spc, s_is_running, sstop, nposes, has_ros,
                   is_shutdown, ros_subscriber, is_pose_subscription_active,
                   pose_status, pose_inputs,
                   shandled>>
    /\ UNCHANGED <<lvars, cvars, evq, handled>>
    /\ UNCHANGED tvars

\* A wait() that does not join the thread.
WaitReturnsAtOnce(j) == TRUE

\* QThread.wait() returns once run() has returned.
WaitReturns(j) == spc[j] = "done"

\* restart_pose_subscription after the wait: self.ros_subscriber = None,
\* is_pose_subscription_active = False, start_pose_subscription().
SubWaitReturn ==
    /\ Top.f = "subwait"
    /\ Top.cont = "restart"
    /\ WaitReturns(Top.id)
    /\ mstack' = Pop
    /\ StartPoseSubscriptionFrom(FALSE, 0)
    /\ UNCHANGED <<s_is_running, subscriber, sstop, nposes, has_ros,
                   is_shutdown, pose_inputs, shandled>>
    /\ UNCHANGED <<lvars, cvars, evq, handled>>
    /\ UNCHANGED tvars

\* closeEvent after self.ros_subscriber.wait(): event.accept(), the window
\* closes.
CloseWaitReturn ==
    /\ Top.f = "subwait"
    /\ Top.cont = "closeEvent"
    /\ WaitReturns(Top.id)
    /\ mstack' = Append(Pop, Frame("closed", 0, "none"))
    /\ UNCHANGED <<lvars, cvars, evq, handled, svars>>
    /\ UNCHANGED tvars

\* restart_pose_subscription with self.ros_subscriber None.
RestartFresh ==
    /\ UiIdle
    /\ ros_subscriber = 0
    /\ StartPoseSubscriptionFrom(FALSE, 0)
    /\ UNCHANGED <<s_is_running, subscriber, sstop, nposes, has_ros,
                   is_shutdown, pose_inputs, shandled>>
    /\ UNCHANGED <<lvars, cvars, qvars>>
    /\ UNCHANGED tvars

\* The event loop runs the next queued slot call of a subscriber:
\* on_pose_connected, update_pose_from_ros or on_pose_error.
HandleSubscriberEvent ==
    /\ ~Blocked
    /\ evq # <<>>
    /\ NextCall.from = "subscriber"
    /\ LET e == NextCall
       IN  /\ evq' = Tail(evq)
           /\ shandled' = [shandled EXCEPT ![e.id] = Append(shandled[e.id], e)]
           /\ pose_status' = CASE e.sig = "connected" -> "connected"
                               [] e.sig = "error" -> "disconnected"
                               [] OTHER -> pose_status
           /\ pose_inputs' = IF e.sig = "pose" THEN PoseShown(e.text)
                             ELSE pose_inputs
    /\ UNCHANGED <<nsub, spc, s_is_running, subscriber, sstop, nposes, has_ros,
                   is_shutdown, ros_subscriber, is_pose_subscription_active>>
    /\ UNCHANGED <<lvars, cvars, mstack, handled>>
    /\ UNCHANGED tvars

\* --------------------------------------------------------- specification
\* The main thread's steps that do not create a launcher.
MainStep ==
    \/ ClickStart
    \/ ClickStop
    \/ AnswerStop
    \/ StopWaitExit
    \/ StopWaitTimeout
    \/ HandleLauncherEvent
    \/ DismissFinished
    \/ CloseEvent
    \/ AnswerClose
    \/ CloseSubscriberStop

\* One localization run in full: the session up to the moment a second
\* ROSLauncherThread would be created, on a machine without the ROS
\* packages (HAS_ROS is False, so no subscriber thread exists).
Next ==
    \/ \E i \in Launchers : LauncherStep(i)
    \/ \E i \in Launchers : ProcWrite(i)
    \/ \E i \in Launchers : ProcExit(i)
    \/ \E i \in Launchers : ProcTerminated(i)
    \/ AnswerStart(1)
    \/ MainStep

Spec == Init /\ [][Next]_vars

\* A session with up to MaxLaunch localization runs, on the same machine,
\* whose processes print nothing.
SessionNext ==
    \/ \E i \in Launchers : LauncherOuterStep(i)
    \/ \E i \in Launchers : ProcExit(i)
    \/ \E i \in Launchers : ProcTerminated(i)
    \/ AnswerStart(MaxLaunch)
    \/ MainStep

SessionSpec == Init /\ [][SessionNext]_vars

\* The pose subscription alone: a session in which localization is never
\* started.
SubNext ==
    \/ \E j \in Subs : SubscriberStep(j)
    \/ \E j \in Subs : PoseCallback(j)
    \/ RosShutdown
    \/ StartPoseSubscription
    \/ RestartStop
    \/ SubStopUnregister
    \/ SubWaitReturn
    \/ RestartFresh
    \/ HandleSubscriberEvent

SubSpec == SubInit /\ [][SubNext]_vars

\* One localization run whose process prints nothing, next to one pose
\* subscription that is not restarted: both threads post to the one event
\* queue of the main thread.
MixNext ==
    \/ \E i \in Launchers : LauncherOuterStep(i)
    \/ \E i \in Launchers : ProcExit(i)
    \/ \E i \in Launchers : ProcTerminated(i)
    \/ AnswerStart(1)
    \/ MainStep
    \/ \E j \in Subs : SubscriberStep(j)
    \/ \E j \in Subs : PoseCallback(j)
    \/ StartPoseSubscription
    \/ HandleSubscriberEvent
    \/ SubStopUnregister
    \/ CloseWaitReturn

MixSpec == SubInit /\ [][MixNext]_vars

\* The same two threads and their consumer while the window stays open:
\* closeEvent is not called.
QueueNext ==
    \/ \E i \in Launchers : LauncherOuterStep(i)
    \/ \E i \in Launchers : ProcExit(i)
    \/ \E i \in Launchers : ProcTerminated(i)
    \/ AnswerStart(1)
    \/ ClickStart
    \/ ClickStop
    \/ AnswerStop
    \/ StopWaitExit
    \/ StopWaitTimeout
    \/ HandleLauncherEvent
    \/ DismissFinished
    \/ \E j \in Subs : SubscriberStep(j)
    \/ \E j \in Subs : PoseCallback(j)
    \/ StartPoseSubscription
    \/ HandleSubscriberEvent

QueueSpec == SubInit /\ [][QueueNext]_vars

\* The sanitizer on its own.  The characters of the raw lines: BEL ESC
\* SPACE ( 0 2 ; B [ ] m.
Chars == {7, 27, 32, 40, 48, 50, 59, 66, 91, 93, 109}

Texts == UNION {[1..n -> Chars] : n \in 0..MaxText}

\* A launcher thread object with a raw line of up to MaxText characters.
SanitizeInit ==
    /\ Constructed
    /\ has_ros = FALSE
    /\ pose_status = "no ros"
    /\ san_in \in Texts
    /\ san_out = <<>>

\* self.clean_ansi_codes(...) applied to the raw line, then to its own result.
Sanitize ==
    /\ Len(san_out) < MaxApply
    /\ san_out' = Append(san_out,
                         clean_ansi_codes(IF san_out = <<>> THEN san_in
                                          ELSE san_out[Len(san_out)]))
    /\ UNCHANGED <<san_in, lvars, cvars, qvars, svars>>

SanitizeNext == Sanitize

SanitizeSpec == SanitizeInit /\ [][SanitizeNext]_vars

\* ------------------------------------------------------------ properties
\* Every signal launcher thread i (or stop() on it) has emitted, in order:
\* the slot calls already run and those still queued.
IsFrom(i, e) == e.from = "launcher" /\ e.id = i
RECURSIVE QueuedOf(_, _)
QueuedOf(i, q) ==
    IF q = <<>> THEN <<>>
    ELSE IF IsFrom(i, Head(q)) THEN <<Head(q)>> \o QueuedOf(i, Tail(q))
    ELSE QueuedOf(i, Tail(q))
Emitted(i) == handled[i] \o QueuedOf(i, evq)

RECURSIVE FinishedOnly(_)
FinishedOnly(es) ==
    IF es = <<>> THEN <<>>
    ELSE IF Head(es).sig = "finished" THEN <<Head(es)>> \o FinishedOnly(Tail(es))
    ELSE FinishedOnly(Tail(es))

\* The slot calls of the lines of the process: all but the finished call and
\* the fixed messages of the launcher.
FixedMessages ==
    {MsgStarting, MsgCommand, MsgStopped, MsgNoPath, MsgStartFailed, MsgStopFailed}
RECURSIVE LinesOnly(_)
LinesOnly(es) ==
    IF es = <<>> THEN <<>>
    ELSE IF Head(es).sig # "finished" /\ Head(es).text \notin FixedMessages
         THEN <<Head(es)>> \o LinesOnly(Tail(es))
         ELSE LinesOnly(Tail(es))

\* What the lines ls, written in this order by the process of launcher i,
\* are to produce: one call per line whose cleaned text is not empty.
RECURSIVE ExpectedOf(_, _)
ExpectedOf(i, ls) ==
    IF ls = <<>> THEN <<>>
    ELSE LET c == clean_ansi_codes(Strip(RawLines[Head(ls)]))
             sig == IF \/ Contains(c, <<91, 69, 82, 82, 79, 82, 93>>)
                       \/ Contains(c, <<91, 87, 65, 82, 78>>)
                    THEN "error" ELSE "output"
         IN  (IF c = <<>> THEN <<>> ELSE <<Ev("launcher", i, sig, c, FALSE)>>)
             \o ExpectedOf(i, Tail(ls))

FinishedHandled(i) == FinishedOnly(handled[i]) # <<>>
AliveProcesses == {i \in Launchers : proc[i] = "alive"}

\* C1: at most one supervised process is alive at any instant, and no
\* launcher thread is created while a supervised process is alive.
C1_OneProcessAtATime ==
    /\ [](Cardinality(AliveProcesses) <= 1)
    /\ [][AliveProcesses # {} => nlaunch' = nlaunch]_vars

\* C2: once the finished call of a launcher that spawned its process has
\* run, the calls run for its lines are exactly those of the lines the
\* process wrote whose cleaned text is not empty, once each and in the order
\* written, and all of them ran before the finished call.
C2_EveryLineDelivered ==
    \A i \in Launchers :
        (FinishedHandled(i) /\ spawned[i] = "ok") =>
            /\ LinesOnly(handled[i]) = ExpectedOf(i, written[i])
            /\ \A k \in 1..Len(handled[i]) :
                  handled[i][k].sig = "finished" =>
                      LinesOnly(SubSeq(handled[i], k, Len(handled[i]))) = <<>>

\* C4: once stop() has returned on a started launcher, the supervised
\* process of that launcher is not alive.
C4_StopEndsStopped ==
    \A i \in Launchers : stopstate[i] = "returned" => proc[i] # "alive"

\* C5: a stop() called while no process was started, or after the process
\* has exited, sends no signal and emits nothing.
C5_StopIsNoOp ==
    [][\A i \in Launchers :
          (stopstate[i] = "no" /\ stopstate'[i] # "no" /\ proc[i] # "alive")
              => (sigs' = sigs /\ evq' = evq)]_vars

\* C7: a launcher started on a path that does not exist never spawns a
\* process; its thread is never blocked and, when it has returned, it has
\* emitted the error text and then finished(False) and nothing else; once
\* the consumer has run on_ros_finished, localization is not running.
C7_MissingPathFails ==
    \A i \in Launchers :
        (lpc[i] # "idle" /\ ~path_exists[i]) =>
            /\ proc[i] = "none"
            /\ spawned[i] = "no"
            /\ lpc[i] # "done" => ENABLED LauncherStep(i)
            /\ lpc[i] = "done" =>
                  Emitted(i) = <<LError(i, MsgNoPath), LFinishedEv(i, FALSE)>>
            /\ (FinishedHandled(i) /\ mstack = <<>>) => ~is_localization_running
C7_Witness ==
    \E i \in Launchers :
        /\ ~path_exists[i]
        /\ lpc[i] = "done"
        /\ FinishedHandled(i)
        /\ mstack = <<>>

\* C8: when the process exited by itself (stop() was never called), the
\* finished call is the last call run for the launcher, after every line
\* call, and its flag is true exactly when the exit status is 0; a process
\* that wrote the one line "[ERROR] boom" and exited with status 1 yields
\* one error call with that text and then finished(False).
C8_ExitNotified ==
    \A i \in Launchers :
        (FinishedHandled(i) /\ stopstate[i] = "no" /\ spawned[i] = "ok") =>
            LET n == Len(handled[i])
            IN  /\ handled[i][n].sig = "finished"
                /\ handled[i][n].ok = (returncode[i] = 0)
                /\ Len(FinishedOnly(handled[i])) = 1
                /\ (written[i] = <<2>> /\ returncode[i] = 1) =>
                      handled[i] =
                          << LOutput(i, MsgStarting), LOutput(i, MsgCommand),
                             LError(i, SubSeq(RawLines[2], 1, 12)),
                             LFinishedEv(i, FALSE) >>
C8_Witness ==
    \E i \in Launchers :
        /\ FinishedHandled(i)
        /\ stopstate[i] = "no"
        /\ written[i] = <<2>>
        /\ returncode[i] = 1
C8_WitnessSuccess ==
    \E i \in Launchers :
        /\ FinishedHandled(i)
        /\ stopstate[i] = "no"
        /\ spawned[i] = "ok"
        /\ returncode[i] = 0

\* C9: a run that fails to start (the path is missing, or Popen raised)
\* emits finished exactly once, with False; no thread emits finished twice,
\* and a launcher thread calls Popen at most once.
C9_FailureReportedOnce ==
    /\ [](\A i \in Launchers :
            /\ Len(FinishedOnly(Emitted(i))) <= 1
            /\ (lpc[i] = "done" /\ (~path_exists[i] \/ spawned[i] = "raised")) =>
                  FinishedOnly(Emitted(i)) = <<LFinishedEv(i, FALSE)>>)
    /\ [][\A i \in Launchers : spawned[i] # "no" => spawned'[i] = spawned[i]]_vars
C9_Witness ==
    \E i \in Launchers :
        /\ spawned[i] = "raised"
        /\ lpc[i] = "done"
        /\ FinishedHandled(i)

\* C10: the signals sent to a process group are SIGTERM, or SIGTERM and
\* then SIGKILL; SIGKILL is sent only out of the wait that follows SIGTERM
\* and only while the process is still alive; while stop() waits, SIGTERM
\* has been sent and SIGKILL has not.
C10_TermBeforeKill ==
    \A i \in Launchers :
        /\ Len(sigs[i]) <= 2
        /\ Len(sigs[i]) >= 1 => sigs[i][1].sig = "SIGTERM"
        /\ Len(sigs[i]) = 2 =>
              /\ sigs[i][2] = [sig |-> "SIGKILL", state |-> "alive"]
              /\ stopstate[i] = "returned"
        /\ stopstate[i] = "called" => Len(sigs[i]) = 1
C10_Witness ==
    \E i \in Launchers :
        /\ Len(sigs[i]) = 2
        /\ sigs[i][1].state = "alive"

\* C3: at any instant at most one pose subscription is registered with the
\* middleware; every subscriber thread but the newest has exited (a restart
\* waits for the old thread before it creates a new one, and a start while a
\* subscription is active creates none).
C3_OneSubscription ==
    /\ Cardinality({j \in Subs : subscriber[j] = "registered"}) <= 1
    /\ \A j \in Subs : j < nsub => spc[j] = "done" /\ subscriber[j] # "registered"
    /\ is_pose_subscription_active => ros_subscriber = nsub

\* A restart has replaced a subscriber by a second one, which is registered.
C3_Witness ==
    /\ nsub = 2
    /\ sstop[1] = "called"
    /\ subscriber[2] = "registered"
    /\ subscriber[1] = "unregistered"

\* C6: once stop() has been called on a started subscriber thread, its
\* receive loop no longer continues, so the thread exits and the wait() that
\* follows stop() returns.
C6_StopEndsLoop ==
    \A j \in Subs :
        (sstop[j] = "called" /\ spc[j] = "loop") => ~LoopContinues(j)

\* The slot calls of subscriber thread j, run and still queued, in order.
SIsFrom(j, e) == e.from = "subscriber" /\ e.id = j
RECURSIVE SQueuedOf(_, _)
SQueuedOf(j, q) ==
    IF q = <<>> THEN <<>>
    ELSE IF SIsFrom(j, Head(q)) THEN <<Head(q)>> \o SQueuedOf(j, Tail(q))
    ELSE SQueuedOf(j, Tail(q))
SEmitted(j) == shandled[j] \o SQueuedOf(j, evq)

IsPrefix(a, b) == Len(a) <= Len(b) /\ SubSeq(b, 1, Len(a)) = a

\* C11: every notification of a launcher or subscriber thread reaches its
\* slot through the main thread's queue: a slot runs in a step of the main
\* thread that takes the oldest queued call, never in the step of the thread
\* that emitted it, and the notifications of one source, those run followed
\* by those still queued, only ever grow at the end, so each source's
\* notifications are run in the order it emitted them.
C11_QueuedInOrder ==
    [][ /\ (evq' # evq \/ handled' # handled \/ shandled' # shandled) =>
              /\ \A i \in Launchers : IsPrefix(Emitted(i), Emitted(i)')
              /\ \A j \in Subs : IsPrefix(SEmitted(j), SEmitted(j)')
        /\ (handled' # handled \/ shandled' # shandled) =>
              /\ ~Blocked
              /\ evq # <<>> /\ evq' = Tail(evq)
              /\ lpc' = lpc /\ spc' = spc /\ nposes' = nposes
              /\ \/ /\ Head(evq).from = "launcher"
                    /\ handled' = [handled EXCEPT ![Head(evq).id] = Append(@, Head(evq))]
                    /\ shandled' = shandled
                 \/ /\ Head(evq).from = "subscriber"
                    /\ shandled' = [shandled EXCEPT ![Head(evq).id] = Append(@, Head(evq))]
                    /\ handled' = handled
      ]_vars

\* Slot calls of a launcher and of a subscriber have been run from the one
\* queue, with calls of both sources still queued behind them.
C11_Witness ==
    /\ Len(handled[1]) >= 2
    /\ Len(shandled[1]) >= 1
    /\ \E k \in 1..Len(evq) : evq[k].from = "launcher"
    /\ \E k \in 1..Len(evq) : evq[k].from = "subscriber"

\* The main thread has run every queued slot call and is back in its
\* outermost event loop.
AllHandled == evq = <<>> /\ mstack = <<>>

\* A launcher whose thread has been started and has not finished run().
ActiveLaunchers == {i \in Launchers : lpc[i] \notin {"idle", "done"}}

\* A subscription that is registered, with its thread in the receive loop.
LiveSubscriptions == {j \in Subs : subscriber[j] = "registered" /\ spc[j] = "loop"}

\* C12: whenever the consumer has handled all queued notifications, the
\* localization status shows starting, running or loading only while a
\* launcher is active, and the pose status shows connected exactly when a
\* subscription is registered and its loop is running.
C12_StatusAgrees ==
    AllHandled =>
        /\ localization_status \in {"starting", "running", "loading map"} =>
              ActiveLaunchers # {}
        /\ pose_status = "connected" <=> LiveSubscriptions # {}

\* The number of slot calls of signal sig in es.
RECURSIVE CountSig(_, _)
CountSig(es, sig) ==
    IF es = <<>> THEN 0
    ELSE (IF Head(es).sig = sig THEN 1 ELSE 0) + CountSig(Tail(es), sig)

\* C13: for each started subscriber thread the connected notification is
\* emitted at most once, and it has been emitted exactly once exactly when
\* the subscription was registered and run() has gone past its emit; a thread
\* whose probe or registration failed never emits it.
C13_ConnectedOnce ==
    \A j \in Subs :
        /\ CountSig(SEmitted(j), "connected") <= 1
        /\ CountSig(SEmitted(j), "connected") = 1 <=>
              (subscriber[j] # "none" /\ spc[j] \in {"loop", "finally", "done"})
        /\ subscriber[j] = "none" => CountSig(SEmitted(j), "connected") = 0

\* One subscriber thread has connected and its notification has been run;
\* another has ended without a subscription and without the notification.
C13_Witness ==
    \E j, k \in Subs :
        /\ CountSig(shandled[j], "connected") = 1
        /\ subscriber[k] = "none" /\ spc[k] = "done"
        /\ CountSig(SEmitted(k), "error") = 1

\* The slot calls of subscriber thread j that carry the error of a failed
\* liveness probe.
RECURSIVE CountText(_, _)
CountText(es, text) ==
    IF es = <<>> THEN 0
    ELSE (IF Head(es).sig = "error" /\ Head(es).text = text THEN 1 ELSE 0)
         + CountText(Tail(es), text)
ProbeFailed(j) == CountText(SEmitted(j), MsgNoMaster) > 0

\* C14: a subscriber thread whose liveness probe failed has emitted exactly
\* one error notification and nothing else, has registered no subscription,
\* never sets its running flag and never enters the receive loop: it is in
\* or past the finally clause of run().
C14_ProbeFailureFailsFast ==
    \A j \in Subs :
        ProbeFailed(j) =>
            /\ SEmitted(j) = <<SError(j, MsgNoMaster)>>
            /\ subscriber[j] = "none"
            /\ ~s_is_running[j]
            /\ spc[j] \in {"finally", "done"}

\* A subscriber thread has returned after a failed probe and its error
\* notification has been run.
C14_Witness ==
    \E j \in Subs :
        /\ spc[j] = "done"
        /\ shandled[j] = <<SError(j, MsgNoMaster)>>
        /\ pose_status = "disconnected"

\* The decode-failure errors among the slot calls es.
DecodeErrors(es) == CountText(es, MsgDecodeFailed)

\* C15: a decode failure of one pose message is a non-fatal notification:
\* neither the step of pose_callback that emits it nor the step of the
\* consumer that handles it changes the subscription - it stays registered,
\* its thread stays where it is with its running flag, and a pose status
\* that shows connected keeps showing connected.
C15_DecodeFailureNonFatal ==
    [][ \A j \in Subs :
          (\/ DecodeErrors(SEmitted(j))' > DecodeErrors(SEmitted(j))
           \/ DecodeErrors(shandled[j])' > DecodeErrors(shandled[j])) =>
              /\ subscriber' = subscriber
              /\ spc' = spc
              /\ s_is_running' = s_is_running
              /\ pose_status = "connected" => pose_status' = "connected"
      ]_vars

\* C16: stop() is called on a launcher only in the step in which the user
\* answers the confirmation question of stop_localization or of closeEvent;
\* and a step that closes such a question without calling stop() (the answer
\* No) leaves the launcher threads, their processes, the running flag, the
\* buttons and the status as they are.
C16_StopNeedsConfirmation ==
    [][ /\ \A i \in Launchers :
              (stopstate[i] = "no" /\ stopstate'[i] # "no") =>
                  /\ Top.f \in {"stopq", "closeq"}
                  /\ i = ros_launcher
        /\ (/\ Top.f \in {"stopq", "closeq"}
            /\ mstack' = Pop
            /\ stopstate' = stopstate) =>
               /\ UNCHANGED lvars
               /\ UNCHANGED cvars
      ]_vars

\* closeEvent has asked, the answer was Yes, and stop() now waits for the
\* process it has signalled; the running flag is still set.
C16_Witness ==
    /\ Top.f = "stopwait"
    /\ Top.cont = "closeEvent"
    /\ stopstate[Top.id] = "called"
    /\ is_localization_running

\* An escape sequence starts at p of s: ESC [ with parameter bytes,
\* intermediate bytes and a final byte (a control sequence), or ESC with
\* intermediate bytes and a final byte 0x30..0x7E (ECMA-35 / ECMA-48).
EscapeSequenceAt(s, p) ==
    /\ p + 1 <= Len(s)
    /\ s[p] = 27
    /\ IF s[p + 1] = 91
       THEN LET q == SkipClass(s, SkipClass(s, p + 2, 48..63), 32..47)
            IN  q <= Len(s) /\ s[q] \in 64..126
       ELSE LET q == SkipClass(s, p + 1, 32..47)
            IN  q <= Len(s) /\ s[q] \in 48..126

HasEscapeSequence(s) == \E p \in 1..Len(s) : EscapeSequenceAt(s, p)

\* C17: for every raw line that contains an escape sequence, the result of
\* clean_ansi_codes contains no ESC (0x1B).
C17_NoEscapeLeft ==
    (san_out # <<>> /\ HasEscapeSequence(san_in)) =>
        \A k \in 1..Len(san_out[1]) : san_out[1][k] # 27

\* C18: clean_ansi_codes is idempotent: applied to its own result it returns
\* that result.
C18_SanitizeIdempotent ==
    Len(san_out) >= 2 => san_out[2] = san_out[1]

\* The pose and decode-error slot calls among es.
RECURSIVE PoseCalls(_)
PoseCalls(es) ==
    IF es = <<>> THEN <<>>
    ELSE (IF \/ Head(es).sig = "pose"
             \/ (Head(es).sig = "error" /\ Head(es).text = MsgDecodeFailed)
          THEN <<Head(es)>> ELSE <<>>) \o PoseCalls(Tail(es))

\* C19: each pose message handed to pose_callback yields one notification,
\* a pose one carrying position x, y, z and orientation x, y, z of the
\* message as they are; and the step of the consumer that handles a pose
\* shows the position unchanged and the angles in degrees: the message with
\* position (1, 2, 3) and yaw pi/2 is shown as 1.000 2.000 3.000 0.00 0.00
\* 90.00, the one with (1.2346, -1.5, 0) and angles pi, -pi/4, 0.1 as
\* 1.235 -1.500 0.000 180.00 -45.00 5.73.
C19_PoseInDegrees ==
    /\ [](\A j \in Subs :
            /\ Len(PoseCalls(SEmitted(j))) = nposes[j]
            /\ \A k \in 1..Len(SEmitted(j)) :
                  SEmitted(j)[k].sig = "pose" =>
                      SEmitted(j)[k].text \in
                          { <<10000, 20000, 30000, 0, 0, 15708>>,
                            <<12346, -15000, 0, 31416, -7854, 1000>> })
    /\ [][ \A j \in Subs :
             (Len(shandled[j]') > Len(shandled[j]) /\ Head(evq).sig = "pose") =>
                 /\ Head(evq).text = <<10000, 20000, 30000, 0, 0, 15708>> =>
                       pose_inputs' = <<1000, 2000, 3000, 0, 0, 9000>>
                 /\ Head(evq).text = <<12346, -15000, 0, 31416, -7854, 1000>> =>
                       pose_inputs' = <<1235, -1500, 0, 18000, -4500, 573>>
         ]_vars

\* The message with angles pi, -pi/4 and 0.1 has been handled and is shown.
C19_Witness ==
    /\ pose_inputs = <<1235, -1500, 0, 18000, -4500, 573>>
    /\ \E j \in Subs :
          \E k \in 1..Len(shandled[j]) :
              /\ shandled[j][k].sig = "pose"
              /\ shandled[j][k].text = <<12346, -15000, 0, 31416, -7854, 1000>>

\* C20: a finished notification that the consumer handles belongs to the
\* launcher started last, and on_ros_finished, when its message box is
\* closed, clears is_localization_running only when the thread of the
\* current launcher has finished.
C20_FinishedIsCurrent ==
    /\ [][ \A i \in Launchers :
             (Len(handled[i]') > Len(handled[i]) /\ Head(evq).sig = "finished") =>
                 i = nlaunch
         ]_vars
    /\ [][ (/\ Top.f = "finbox"
            /\ is_localization_running
            /\ ~is_localization_running') =>
               lpc[ros_launcher] = "done"
         ]_vars

\* closeEvent has run to its last statement, event.accept(): the window is
\* closed.
WindowClosed == Top.f = "closed"

\* C21: once closeEvent has accepted the close, no process started by a
\* launcher thread is still alive.
C21_NoProcessLeft ==
    WindowClosed => \A i \in Launchers : proc[i] # "alive"

\* The process of launcher i died of the SIGTERM that stop() sent.
EndedByStop(i) == stopstate[i] = "returned" /\ returncode[i] = -15

\* C22: a stop that the user confirmed in stop_localization, and that ended
\* the process, is not reported as an abnormal exit: the consumer handles no
\* finished notification with success = false of that launcher (a slot runs
\* after stop() only when stop_localization called it: closeEvent runs no
\* event loop after its stop()), and the localization status that shows
\* stopped keeps showing stopped until a launcher is started again.
C22_StopNotAbnormal ==
    /\ [][ \A i \in Launchers :
             (/\ Len(handled[i]') > Len(handled[i])
              /\ Head(evq).sig = "finished"
              /\ EndedByStop(i)) => Head(evq).ok
         ]_vars
    /\ [][ (/\ ros_launcher # 0
            /\ EndedByStop(ros_launcher)
            /\ localization_status = "stopped"
            /\ localization_status' # "stopped") => nlaunch' = nlaunch + 1
         ]_vars

\* The position of the first slot call with signal sig in es, or
\* Len(es) + 1 when there is none.
RECURSIVE FirstSig(_, _)
FirstSig(es, sig) ==
    IF es = <<>> THEN 1
    ELSE IF Head(es).sig = sig THEN 1
    ELSE 1 + FirstSig(Tail(es), sig)

\* C23: for every subscriber thread, no pose notification is run by the
\* consumer before the connected notification of that thread: a pose among
\* the slot calls run has the connected one before it.
C23_ConnectedBeforePose ==
    \A j \in Subs :
        FirstSig(shandled[j], "pose") <= Len(shandled[j]) =>
            FirstSig(shandled[j], "connected") < FirstSig(shandled[j], "pose")

\* C24: whenever start_localization, stop_localization or on_ros_finished
\* has completed - and at every other moment the main thread can be
\* observed - the start button is enabled exactly when
\* is_localization_running is false and the stop button exactly when it is
\* true.
C24_ButtonsFollowFlag ==
    /\ btn_start_enabled = ~is_localization_running
    /\ btn_stop_enabled = is_localization_running

\* All three handlers have completed: two launchers were started, the first
\* was stopped by a confirmed stop_localization, and on_ros_finished has run
\* to its end for a finished notification of the first; the main thread is
\* back in its outermost event loop.
C24_Witness ==
    /\ nlaunch = 2
    /\ stopstate[1] = "returned"
    /\ \E k \in 1..Len(handled[1]) : handled[1][k].sig = "finished"
    /\ mstack = <<>>
    /\ ~is_localization_running
    /\ btn_start_enabled /\ ~btn_stop_enabled

====
